---- MODULE Spec2Model ----
(***************************************************************************)
(* Model of dhan_websocket_alert_bot.py: the message handler               *)
(* (market_feed_handler), the throttled notifier (send_telegram_message)   *)
(* and the reconnecting feed loop (start_market_feed).                     *)
(*                                                                         *)
(* Time is in whole seconds.  Python values that reach the handler are     *)
(* written as their Python literals inside TLA+ strings ("'1333'" is the   *)
(* str '1333', "1700" the int 1700, "None" is None).                       *)
(***************************************************************************)
EXTENDS Integers, Sequences, FiniteSets, TLC

VARIABLES
    creds,        \* which of the four environment credentials are set
    arr,          \* arrival time of the most recent message
    clock,        \* time at which the message-handling context is free again
    last_sent,    \* _last_sent: security id -> time of the last successful send
    latest_ltp,   \* latest_ltp: security id -> last parsed price
    msg,          \* the message most recently given to market_feed_handler
    calls,        \* number of handler invocations so far
    posts,        \* number of requests.post calls so far
    status,       \* HTTP status of the response to the most recent POST, 0 if none
    last,         \* what the most recent handler invocation did (observation)
    escaped,      \* exception class that left market_feed_handler, or "none"
    delivered,    \* observation: id -> recorded time of the last successful send
    failAt,       \* observation: id -> time of a failed attempt by the latest tick for id
    win,          \* observation: id -> the ticks of the first throttle window
    scen,         \* observation: id -> progress through the T, T+5, T+65 scenario
    sdk,          \* the shape and behaviour of the installed dhanhq SDK
    pc,           \* position of start_market_feed
    feed,         \* the feed session handle: "none", "open" or "closed"
    registered,   \* whether a callback registration succeeded on the session
    backoff,      \* the local variable backoff of start_market_feed
    delays,       \* observation: the last two sleeps of the loop, in milliseconds
    sleeps,       \* observation: number of sleeps of the loop so far
    attempts,     \* number of loop iterations started
    sessions,     \* number of feed sessions constructed
    runErr,       \* how the run call of the current session ended, "none" before
    thr,          \* per SDK thread: where its market_feed_handler invocation is
    raceSent,     \* observation: id -> times of the deliveries made by the threads
    onlyRunRaised, \* observation: every attempt so far ended with the run call
                  \* raising an exception that is no ValueError
    exitReason    \* why start_market_feed ended, or "none"

handlerVars == <<arr, clock, last_sent, latest_ltp, msg, calls, posts, status,
                 last, escaped, delivered, failAt, win, scen>>
feedVars == <<sdk, pc, feed, registered, backoff, delays, sleeps, attempts,
              sessions, runErr, onlyRunRaised, exitReason>>
raceVars == <<thr, raceSent>>
vars == <<creds, handlerVars, feedVars, raceVars>>

----------------------------------------------------------------------------
(* Program constants *)

INITIAL_BACKOFF == 1
MAX_BACKOFF == 60
SEND_INTERVAL_SECONDS == 60
POST_TIMEOUT == 8
HDFC_ID == "1333"

(* Bounds of the model *)

Epoch == 1000          \* time.time() when the process starts handling messages
MaxTicks == 3          \* handler invocations in one behaviour
MaxFields == 2         \* fields present in one generated message
MaxAttrs == 3          \* fields present in one generated top-level message
MaxAttempts == 8       \* iterations of the reconnect loop in one behaviour

(* Inter-arrival gaps of messages, seconds *)
Gaps == {5, 59, 60}
\* result and duration of one requests.post: a response after 0 or 6 seconds,
\* or the timeout exception after POST_TIMEOUT seconds
PostResults == {<<"ok", 0>>, <<"ok", 6>>, <<"not_ok", 0>>, <<"raise", POST_TIMEOUT>>}

----------------------------------------------------------------------------
(* Python values and dictionaries *)

PyNone == "None"
NoPrice == -1          \* ltp = None
NaN == -2              \* the float nan
PosInf == -3           \* the float inf

Vals == {"'1333'", "1700", "0", "'abc'"}
\* the values of top-level messages: also 0.0, the empty str, 'nan' and 'inf'
TopVals == Vals \cup {"0.0", "''", "'nan'", "'inf'"}

\* bool(v)
Truthy(v) == v \notin {"None", "0", "0.0", "''"}

\* math.isfinite(x) for a parsed price
IsFinite(x) == x \notin {NaN, PosInf}

\* str(v) for the values above
Str(v) ==
    CASE v = "'1333'" -> "1333"
      [] v = "1700" -> "1700"
      [] v = "0" -> "0"
      [] v = "'abc'" -> "abc"
      [] v = "'nan'" -> "nan"
      [] v = "'inf'" -> "inf"
      [] v = "''" -> ""
      [] OTHER -> v

\* float(v): the number, or NoPrice when float() raises ValueError/TypeError
Float(v) ==
    CASE v = "'1333'" -> 1333
      [] v = "1700" -> 1700
      [] v = "0" -> 0
      [] v = "0.0" -> 0
      [] v = "'nan'" -> NaN
      [] v = "'inf'" -> PosInf
      [] OTHER -> NoPrice

\* dict.get(k, d) on a dictionary kept as a function
Get(d, k, dflt) == IF k \in DOMAIN d THEN d[k] ELSE dflt

\* d[k] = v
Put(d, k, v) == [x \in DOMAIN d \cup {k} |-> IF x = k THEN v ELSE d[x]]

EmptyDict == [x \in {} |-> 0]

Max(a, b) == IF a >= b THEN a ELSE b
Min(a, b) == IF a <= b THEN a ELSE b

----------------------------------------------------------------------------
(* Messages.  A message has a kind and fields; a field sits in a slot      *)
(* <<location, name>>, the location being "top" or one of the containers.  *)
(*   dict      a Python dict                                               *)
(*   json      str/bytes holding a JSON object (json.loads gives the dict) *)
(*   opaque    str/bytes that json.loads rejects                           *)
(*   nonobject str/bytes holding JSON that is not an object (list, number) *)
(*   object    an attribute-style object; its attributes are "top" slots   *)
(* A key whose value is None behaves as an absent key under dict.get, and  *)
(* a container that is not a dict as an absent container, so neither is    *)
(* generated.                                                              *)

IdNames == <<"securityId", "symbol", "security_id", "s">>
PriceNames == <<"lastTradedPrice", "ltp", "last_price", "last">>
Containers == <<"data", "payload", "tick", "update">>

Range(s) == {s[i] : i \in DOMAIN s}
Names == Range(IdNames) \cup Range(PriceNames)
Locations == {"top"} \cup Range(Containers)
Slots == Locations \X Names
TopSlots == {"top"} \X Names

RECURSIVE SubsetsUpTo(_, _)
SubsetsUpTo(S, k) ==
    IF k = 0 THEN {{}}
    ELSE LET P == SubsetsUpTo(S, k - 1)
         IN  P \cup {p \cup {x} : p \in P, x \in S}

FieldMaps(S) == UNION {[D -> Vals] : D \in SubsetsUpTo(S, MaxFields)}

\* maps and objects with up to MaxAttrs top-level fields
TopMsgs ==
    [kind : {"dict", "object"},
     f : UNION {[D -> TopVals] : D \in SubsetsUpTo(TopSlots, MaxAttrs)}]

Msgs ==
    [kind : {"dict", "json"}, f : FieldMaps(Slots)]
    \cup [kind : {"object"}, f : FieldMaps(TopSlots)]
    \cup [kind : {"opaque", "nonobject"}, f : {EmptyDict}]

\* message.get(name) / nested.get(name)
Field(m, loc, name) == Get(m.f, <<loc, name>>, PyNone)

\* isinstance(message.get(c), dict)
IsDictAt(m, c) == \E n \in Names : <<c, n>> \in DOMAIN m.f

\* a or b: the first truthy operand, else the last one
Or2(a, b) == IF Truthy(a) THEN a ELSE b

----------------------------------------------------------------------------
(* market_feed_handler, lines 87-121: from the message to (security_id, ltp) *)

\* lines 87-92: json.loads of str/bytes; on failure the message stays a str
Decode(m) == IF m.kind = "json" THEN [m EXCEPT !.kind = "dict"] ELSE m

\* line 97
TopId(m) ==
    Or2(Field(m, "top", "securityId"),
        Or2(Field(m, "top", "symbol"),
            Or2(Field(m, "top", "security_id"), Field(m, "top", "s"))))

\* line 98
TopPrice(m) ==
    Or2(Field(m, "top", "lastTradedPrice"),
        Or2(Field(m, "top", "ltp"),
            Or2(Field(m, "top", "last_price"), Field(m, "top", "last"))))

\* line 103
NestedId(m, c, sid) ==
    Or2(sid, Or2(Field(m, c, "securityId"), Field(m, c, "symbol")))

\* line 104
NestedPrice(m, c, ltp) ==
    Or2(ltp, Or2(Field(m, c, "lastTradedPrice"), Field(m, c, "ltp")))

\* lines 100-106: the loop over the containers, from index i on
RECURSIVE NestedScan(_, _, _, _)
RECURSIVE NestedNext(_, _, _, _)
NestedScan(m, i, sid, ltp) ==
    IF i > Len(Containers) THEN <<sid, ltp>>
    ELSE IF IsDictAt(m, Containers[i])
         THEN NestedNext(m, i, NestedId(m, Containers[i], sid),
                         NestedPrice(m, Containers[i], ltp))
         ELSE NestedScan(m, i + 1, sid, ltp)

\* lines 105-106: break when the id is found, else go on to the next container
NestedNext(m, i, sid2, ltp2) ==
    IF Truthy(sid2) THEN <<sid2, ltp2>> ELSE NestedScan(m, i + 1, sid2, ltp2)

\* lines 99-106
DictLookupFrom(m, sid, ltp) ==
    IF ~Truthy(sid) THEN NestedScan(m, 1, sid, ltp) ELSE <<sid, ltp>>

\* lines 96-106
DictLookup(m) == DictLookupFrom(m, TopId(m), TopPrice(m))

\* lines 108-113: every present attribute overwrites the previous one
RECURSIVE AttrScan(_, _, _, _)
AttrScan(m, names, i, cur) ==
    IF i > Len(names) THEN cur
    ELSE AttrScan(m, names, i + 1,
                  IF <<"top", names[i]>> \in DOMAIN m.f
                  THEN m.f[<<"top", names[i]>>] ELSE cur)

ObjectLookup(m) ==
    <<AttrScan(m, SubSeq(IdNames, 1, 3), 1, PyNone),
      AttrScan(m, PriceNames, 1, PyNone)>>

\* lines 94-113
Lookup(m) ==
    IF m.kind = "dict" THEN DictLookup(m)
    ELSE IF m.kind = "object" THEN ObjectLookup(m)
    ELSE <<PyNone, PyNone>>

\* the float() failure ignored: an unparsable price counts as 0.0
ParsePriceUnchecked(v) ==
    IF v # PyNone THEN (IF Float(v) = NoPrice THEN 0 ELSE Float(v)) ELSE NoPrice

\* lines 117-121
ParsePrice(v) == IF v # PyNone THEN Float(v) ELSE NoPrice

NoTick == [tick |-> FALSE, id |-> "", price |-> NoPrice]

\* lines 115-123: the tick for the looked-up security_id and the parsed price
TickOf(sid, price) ==
    IF Truthy(sid) /\ price # NoPrice
    THEN [tick |-> TRUE, id |-> Str(sid), price |-> price]
    ELSE NoTick

TickOfPair(p) == TickOf(p[1], ParsePrice(p[2]))

\* lines 87-123: the tick the handler acts on, or NoTick
Normalize(raw) == TickOfPair(Lookup(Decode(raw)))

----------------------------------------------------------------------------
(* Exceptions.  "except Exception" catches the subclasses of Exception and  *)
(* lets KeyboardInterrupt and SystemExit through.                           *)

ExceptionSubclasses == {"RequestException", "ValueError", "TypeError", "RuntimeError"}

\* the except clause narrowed to ValueError
SendExceptValueErrorOnly(e) == IF e = "ValueError" THEN "none" ELSE e

\* line 78: except Exception around requests.post; what still propagates
SendExcept(e) == IF e \in ExceptionSubclasses THEN "none" ELSE e

\* line 129: except Exception around the whole handler body
HandlerExcept(e) == IF e \in ExceptionSubclasses THEN "none" ELSE e

----------------------------------------------------------------------------
(* send_telegram_message, lines 52-79 *)

PostOutcomes == {"ok", "not_ok", "raise"}

\* HTTP status codes of the responses; NoResponse when requests.post raised
Statuses == {101, 200, 302, 404, 500}
NoResponse == 0

\* line 73, resp.ok of the requests library: raise_for_status() does not
\* raise, which it does exactly for 400 <= status_code < 600
ResponseOk(st) == ~(400 <= st /\ st < 600)

\* lines 72-78: the branch taken for a POST that ended with status st
PostOutcome(st) ==
    IF st = NoResponse THEN "raise"
    ELSE IF ResponseOk(st) THEN "ok" ELSE "not_ok"
Attempted == {"sent", "api_error", "exception"}
Failed == {"api_error", "exception"}

\* the comparison off by one second
ThrottledOffByOne(now, lastv) == now - lastv < SEND_INTERVAL_SECONDS - 1

\* line 55: now - last < SEND_INTERVAL_SECONDS
Throttled(now, lastv) == now - lastv < SEND_INTERVAL_SECONDS

\* line 58: not TELEGRAM_BOT_TOKEN or not TELEGRAM_CHAT_ID
TelegramMissing(c) == ~c.bot_token \/ ~c.chat_id

\* line 75: the time written to _last_sent, time.time() after the POST returned
RecordedTime(now, dur) == now + dur

\* a successful delivery stamping every key of the table
SentTableEveryKey(table, sid, now, outcome, dur) ==
    IF outcome = "ok"
    THEN [x \in DOMAIN table \cup {sid} |-> RecordedTime(now, dur)]
    ELSE table

\* the timestamp written whatever the outcome of the POST
SentTableAlways(table, sid, now, outcome, dur) == Put(table, sid, now + dur)

\* lines 71-79: what the POST outcome does to _last_sent
SentTable(table, sid, now, outcome, dur) ==
    IF outcome = "ok" THEN Put(table, sid, RecordedTime(now, dur)) ELSE table

\* The whole call: res is what happened, table the new _last_sent, finish the
\* time at which the call returns, exc the exception that leaves the call.
SendTelegramMessage(table, c, sid, now, outcome, dur) ==
    IF Throttled(now, Get(table, sid, 0))
    THEN [res |-> "throttled", table |-> table, finish |-> now, exc |-> "none"]
    ELSE IF TelegramMissing(c)
    THEN [res |-> "nocreds", table |-> table, finish |-> now, exc |-> "none"]
    ELSE [res |-> CASE outcome = "ok" -> "sent"
                    [] outcome = "not_ok" -> "api_error"
                    [] OTHER -> "exception",
          table |-> SentTable(table, sid, now, outcome, dur),
          finish |-> now + dur,
          exc |-> IF outcome = "raise" THEN SendExcept("RequestException")
                  ELSE "none"]

----------------------------------------------------------------------------
(* Observations kept beside the program state *)

NoWin == [start |-> 0, ticks |-> 0, attempts |-> 0, oks |-> 0,
          skipsBeforeOk |-> 0, attemptsAfterOk |-> 0, firstOk |-> FALSE]

\* the ticks for one id that arrive less than SEND_INTERVAL_SECONDS after the
\* first tick for that id
WinStep(w, at, res) ==
    IF w.start = 0
    THEN [start |-> at, ticks |-> 1,
          attempts |-> IF res \in Attempted THEN 1 ELSE 0,
          oks |-> IF res = "sent" THEN 1 ELSE 0,
          skipsBeforeOk |-> IF res \in Attempted THEN 0 ELSE 1,
          attemptsAfterOk |-> 0,
          firstOk |-> res = "sent"]
    ELSE IF at - w.start < SEND_INTERVAL_SECONDS
    THEN [w EXCEPT !.ticks = @ + 1,
                   !.attempts = IF res \in Attempted THEN @ + 1 ELSE @,
                   !.oks = IF res = "sent" THEN @ + 1 ELSE @,
                   !.skipsBeforeOk =
                       IF res \notin Attempted /\ w.oks = 0 THEN @ + 1 ELSE @,
                   !.attemptsAfterOk =
                       IF res \in Attempted /\ w.oks > 0 THEN @ + 1 ELSE @]
    ELSE w

NoScen == [stage |-> 0, T |-> 0, m |-> [kind |-> "opaque", f |-> EmptyDict],
           d2 |-> 0, d3 |-> 0]
Void == [NoScen EXCEPT !.stage = 9]

\* the scenario "a tick at T is delivered, the same tick arrives at T+5 and
\* again at T+65"; d2 and d3 count the deliveries the 2nd and 3rd tick caused
ScenStep(sc, m, at, res) ==
    CASE sc.stage = 0 ->
             IF res = "sent" THEN [NoScen EXCEPT !.stage = 1, !.T = at, !.m = m]
             ELSE Void
      [] sc.stage = 1 ->
             IF m = sc.m /\ at = sc.T + 5 /\ res \notin Failed /\ res # "nocreds"
             THEN [sc EXCEPT !.stage = 2, !.d2 = IF res = "sent" THEN 1 ELSE 0]
             ELSE Void
      [] sc.stage = 2 ->
             IF m = sc.m /\ at = sc.T + 65 /\ res \notin Failed /\ res # "nocreds"
             THEN [sc EXCEPT !.stage = 3, !.d3 = IF res = "sent" THEN 1 ELSE 0]
             ELSE Void
      [] OTHER -> Void

NoCall == [res |-> "none", tick |-> NoTick, now |-> 0, at |-> 0, sendExc |-> "none",
           sentBefore |-> EmptyDict, ltpBefore |-> EmptyDict, postsBefore |-> 0,
           prevDeliv |-> 0, afterFailAt |-> 0]

----------------------------------------------------------------------------
(* market_feed_handler, lines 85-130, as one step: the message m arrives    *)
(* gap seconds after the previous one and is handled as soon as the         *)
(* handling context is free; outcome and dur are the result and duration of *)
(* requests.post and are read only when a POST is made.                     *)

\* lines 123-128: t is the tick (or NoTick); the result of the call to
\* send_telegram_message, when it is made
HandlerSend(t, now, outcome, dur) ==
    IF t.tick
    THEN SendTelegramMessage(last_sent, creds, t.id, now, outcome, dur)
    ELSE [res |-> "ignored", table |-> last_sent, finish |-> now, exc |-> "none"]

\* the cache written only when the alert was delivered
UpdateLtpOnDelivery(cache, t, res) ==
    IF t.tick /\ res = "sent" THEN Put(cache, t.id, t.price) ELSE cache

\* line 124: latest_ltp after a message that gave tick t, whatever the
\* result res of the send that follows
UpdateLtp(cache, t, res) ==
    IF t.tick THEN Put(cache, t.id, t.price) ELSE cache

\* the new state, from the tick t and the result s of the send
HandlerEffect(m, at, now, t, s, outcome, dur) ==
        /\ (s.res \notin Attempted) => (outcome = "ok" /\ dur = 0)
        /\ arr' = at
        /\ clock' = s.finish
        /\ msg' = m
        /\ calls' = calls + 1
        /\ latest_ltp' = UpdateLtp(latest_ltp, t, s.res)
        /\ last_sent' = s.table
        /\ posts' = IF s.res \in Attempted THEN posts + 1 ELSE posts
        /\ escaped' = HandlerExcept(s.exc)
        /\ last' = [res |-> s.res, tick |-> t, now |-> now, at |-> at,
                    sendExc |-> s.exc,
                    sentBefore |-> last_sent, ltpBefore |-> latest_ltp,
                    postsBefore |-> posts,
                    prevDeliv |-> IF t.tick THEN Get(delivered, t.id, 0) ELSE 0,
                    afterFailAt |-> IF t.tick THEN Get(failAt, t.id, 0) ELSE 0]
        /\ delivered' = IF s.res = "sent"
                        THEN Put(delivered, t.id, RecordedTime(now, dur))
                        ELSE delivered
        /\ failAt' = IF t.tick
                     THEN Put(failAt, t.id, IF s.res \in Failed THEN now ELSE 0)
                     ELSE failAt
        /\ win' = IF t.tick
                  THEN Put(win, t.id, WinStep(Get(win, t.id, NoWin), at, s.res))
                  ELSE win
        /\ scen' = IF t.tick
                   THEN Put(scen, t.id, ScenStep(Get(scen, t.id, NoScen), m, at, s.res))
                   ELSE scen

HandlerAt(m, at, now, t, outcome, dur) ==
    HandlerEffect(m, at, now, t, HandlerSend(t, now, outcome, dur), outcome, dur)

MarketFeedHandler(m, gap, outcome, dur) ==
    HandlerAt(m, arr + gap, Max(arr + gap, clock), Normalize(m), outcome, dur)

\* the handler when the POST, if one is made, ends with status st after dur
\* seconds; st and dur are read only when a POST is made
HandlerWithPost(m, gap, st, dur) ==
    /\ MarketFeedHandler(m, gap, PostOutcome(st), dur)
    /\ status' = IF last'.res \in Attempted THEN st ELSE NoResponse
    /\ (last'.res \notin Attempted) => st = 200

AllCreds == [client_id |-> TRUE, access_token |-> TRUE,
             bot_token |-> TRUE, chat_id |-> TRUE]
CredSets == [client_id : BOOLEAN, access_token : BOOLEAN,
             bot_token : BOOLEAN, chat_id : BOOLEAN]

NoSdk == [kind |-> "none"]

\* the threads from which the SDK fires its callbacks
Threads == {1, 2}
IdleThread == [pc |-> "idle", id |-> "", now |-> 0]
RaceIdle ==
    /\ thr = [t \in Threads |-> IdleThread]
    /\ raceSent = EmptyDict

FeedIdle ==
    /\ sdk = NoSdk
    /\ pc = "idle"
    /\ feed = "none"
    /\ registered = FALSE
    /\ backoff = INITIAL_BACKOFF
    /\ delays = <<>>
    /\ sleeps = 0
    /\ attempts = 0
    /\ sessions = 0
    /\ runErr = "none"
    /\ onlyRunRaised = TRUE
    /\ exitReason = "none"

HandlerFresh ==
    /\ arr = Epoch
    /\ clock = Epoch
    /\ last_sent = EmptyDict
    /\ latest_ltp = EmptyDict
    /\ calls = 0
    /\ posts = 0
    /\ status = NoResponse
    /\ last = NoCall
    /\ escaped = "none"
    /\ delivered = EmptyDict
    /\ failAt = EmptyDict
    /\ win = EmptyDict
    /\ scen = EmptyDict

----------------------------------------------------------------------------
(* SpecThrottle: the message-handling context of a running feed.  Messages  *)
(* reach market_feed_handler one at a time.                                 *)

TickA == [kind |-> "dict",
          f |-> (<<"top", "securityId">> :> "'1333'")
                @@ (<<"top", "lastTradedPrice">> :> "1700")]
TickA2 == [kind |-> "json",
           f |-> (<<"top", "symbol">> :> "'1333'") @@ (<<"top", "ltp">> :> "'1333'")]
TickB == [kind |-> "dict",
          f |-> (<<"data", "symbol">> :> "1700") @@ (<<"data", "ltp">> :> "1700")]
Junk == [kind |-> "opaque", f |-> EmptyDict]
ThrottleMsgs == {TickA, TickA2, TickB, Junk}

InitThrottle ==
    /\ creds \in {c \in CredSets : c.client_id /\ c.access_token}
    /\ msg = Junk
    /\ HandlerFresh
    /\ FeedIdle
    /\ RaceIdle

Tick ==
    /\ calls < MaxTicks
    /\ \E m \in ThrottleMsgs, gap \in Gaps, r \in PostResults,
          st \in Statuses \cup {NoResponse} :
           /\ PostOutcome(st) = r[1]
           /\ HandlerWithPost(m, gap, st, r[2])
    /\ UNCHANGED <<creds, feedVars, raceVars>>

NextThrottle == Tick

SpecThrottle == InitThrottle /\ [][NextThrottle]_vars

----------------------------------------------------------------------------
(* SpecNorm: one message of any generated shape is handled once, in a       *)
(* process that delivered an alert for id 1700 one second earlier.          *)

InitNorm ==
    /\ creds = AllCreds
    /\ msg \in Msgs
    /\ arr = Epoch
    /\ clock = Epoch
    /\ last_sent = ("1700" :> Epoch - 1)
    /\ latest_ltp = ("1700" :> 1700)
    /\ calls = 0
    /\ posts = 0
    /\ status = NoResponse
    /\ last = NoCall
    /\ escaped = "none"
    /\ delivered = ("1700" :> Epoch - 1)
    /\ failAt = EmptyDict
    /\ win = EmptyDict
    /\ scen = EmptyDict
    /\ FeedIdle
    /\ RaceIdle

Handle ==
    /\ calls = 0
    /\ \E st \in Statuses \cup {NoResponse} :
           HandlerWithPost(msg, 0, st, 0)
    /\ UNCHANGED <<creds, feedVars, raceVars>>

NextNorm == Handle

SpecNorm == InitNorm /\ [][NextNorm]_vars

----------------------------------------------------------------------------
(* SpecRace: market_feed_handler is registered on several callbacks of the  *)
(* feed (lines 271-307) and the SDK fires them from two threads.  An        *)
(* invocation runs from its start to requests.post without a switch that    *)
(* matters (lines 86-71 touch the shared dicts only by single reads and     *)
(* writes); the thread then blocks in the POST, where the other thread      *)
(* runs; lines 73-79 follow when the POST ends.  There is no lock in the    *)
(* source.  clock is the time.time() of the process.                        *)

\* lines 85-128 and 52-71 in thread t: a message m arrives gap seconds after the last
\* event, is normalised, and send_telegram_message runs up to the POST
BeginHandler(t, m, gap) ==
    LET now == clock + gap
        tk == Normalize(m)
        res == IF ~tk.tick THEN "ignored"
               ELSE IF Throttled(now, Get(last_sent, tk.id, 0)) THEN "throttled"
               ELSE IF TelegramMissing(creds) THEN "nocreds"
               ELSE "posting"
    IN  /\ thr[t].pc = "idle"
        /\ calls < MaxTicks
        /\ calls' = calls + 1
        /\ clock' = now
        /\ arr' = now
        /\ msg' = m
        /\ latest_ltp' = UpdateLtp(latest_ltp, tk, res)
        /\ posts' = IF res = "posting" THEN posts + 1 ELSE posts
        /\ thr' = [thr EXCEPT ![t] = IF res = "posting"
                                      THEN [pc |-> "posting", id |-> tk.id, now |-> now]
                                      ELSE IdleThread]
        /\ UNCHANGED <<last_sent, status, last, escaped, delivered, failAt, win,
                       scen, raceSent>>

\* lines 72-79 in thread t: the POST ends dur seconds after the last event
\* with status st (NoResponse: it raised)
EndPost(t, st, dur) ==
    /\ thr[t].pc = "posting"
    /\ clock' = clock + dur
    /\ status' = st
    /\ last_sent' = SentTable(last_sent, thr[t].id, clock, PostOutcome(st), dur)
    /\ raceSent' = IF PostOutcome(st) = "ok"
                   THEN Put(raceSent, thr[t].id,
                            Append(Get(raceSent, thr[t].id, <<>>), clock + dur))
                   ELSE raceSent
    /\ escaped' = HandlerExcept(IF PostOutcome(st) = "raise"
                                THEN SendExcept("RequestException") ELSE "none")
    /\ thr' = [thr EXCEPT ![t] = IdleThread]
    /\ UNCHANGED <<arr, latest_ltp, msg, calls, posts, last, delivered, failAt,
                   win, scen>>

Begin ==
    /\ \E t \in Threads, m \in ThrottleMsgs, gap \in {0, 5, 60} : BeginHandler(t, m, gap)
    /\ UNCHANGED <<creds, feedVars>>

Finish ==
    /\ \E t \in Threads, r \in PostResults, st \in Statuses \cup {NoResponse} :
           /\ PostOutcome(st) = r[1]
           /\ EndPost(t, st, r[2])
    /\ UNCHANGED <<creds, feedVars>>

InitRace ==
    /\ creds \in {c \in CredSets : c.client_id /\ c.access_token}
    /\ msg = Junk
    /\ HandlerFresh
    /\ FeedIdle
    /\ RaceIdle

NextRace == Begin \/ Finish

SpecRace == InitRace /\ [][NextRace]_vars

----------------------------------------------------------------------------
(* SpecTop: one map or object with top-level fields only is handled once,   *)
(* in a process that has sent no alert yet.                                 *)

InitTop ==
    /\ creds = AllCreds
    /\ msg \in TopMsgs
    /\ HandlerFresh
    /\ FeedIdle
    /\ RaceIdle

SpecTop == InitTop /\ [][NextNorm]_vars

----------------------------------------------------------------------------
(* start_market_feed, lines 424-521, with try_start_feed_instance and       *)
(* instantiate_feed_simple.  The SDK is an input: sdk says what the         *)
(* installed dhanhq offers, and each call into it has an outcome.           *)
(*   kind    "noimport": import dhanhq fails; "nofeed": no feed class;      *)
(*           "class": a feed class was detected                             *)
(*   wss     the module has market_feed_wss (used when there is no class)   *)
(*   entry   the blocking entry point of a feed: run_forever, one of        *)
(*           run/start/listen ("alt"), or none                              *)
(*   closer  the feed has disconnect, only close_connection, or neither     *)
(*   hooks   some callback registration of lines 271-307 succeeds           *)

SdkShapes ==
    [kind : {"noimport"}, wss : {FALSE}, entry : {"none"}, closer : {"none"},
     hooks : {FALSE}]
    \cup [kind : {"nofeed"}, wss : BOOLEAN, entry : {"none"}, closer : {"none"},
          hooks : {FALSE}]
    \cup [kind : {"class"}, wss : {FALSE}, entry : {"run_forever", "alt", "none"},
          closer : {"disconnect", "close_connection", "none"}, hooks : BOOLEAN]

RunOutcomes == {"returned", "ValueError_unsupported", "ValueError", "Exception",
                "KeyboardInterrupt"}
ValueErrors == {"ValueError_unsupported", "ValueError"}

Ms(seconds) == seconds * 1000
HalfSecond == 500

\* the sleeps observed: the last two and their number
Slept(d) == IF Len(delays) < 2 THEN Append(delays, d) ELSE <<delays[2], d>>

\* line 425
DhanMissing(c) == ~c.client_id \/ ~c.access_token

\* lines 393-419: (started, err) of try_start_feed_instance for a run call
\* that ended with outcome o; err is "none" or the exception
TryStartResult(entry, o) ==
    IF entry = "run_forever"
    THEN CASE o = "returned" -> <<TRUE, "none">>
           [] o \in ValueErrors -> <<FALSE, o>>
           [] OTHER -> <<TRUE, o>>
    ELSE CASE o = "returned" -> <<TRUE, "none">>
           [] OTHER -> <<TRUE, o>>

\* line 494
UnsupportedVersion(err) == err = "ValueError_unsupported"

\* lines 496-502
Disconnected(shape, f) == IF shape.closer = "none" THEN f ELSE "closed"

\* line 521
NextBackoff(b) == Min(MAX_BACKOFF, IF b > 0 THEN b * 2 ELSE INITIAL_BACKOFF)

\* line 518
BackoffSleep(b) == Min(MAX_BACKOFF, b)

\* lines 424-464: the checks before the loop
Start ==
    /\ pc = "start"
    /\ IF DhanMissing(creds)
       THEN pc' = "done" /\ exitReason' = "missing_credentials"
       ELSE IF sdk.kind = "noimport"
       THEN pc' = "done" /\ exitReason' = "import_failed"
       ELSE pc' = "loop" /\ exitReason' = exitReason
    /\ backoff' = INITIAL_BACKOFF
    /\ UNCHANGED <<creds, handlerVars, raceVars, sdk, feed, registered, delays, sleeps,
                   attempts, sessions, runErr, onlyRunRaised>>

\* lines 516-521: an exception reached the loop's except Exception
LoopError ==
    /\ delays' = Slept(Ms(BackoffSleep(backoff)))
    /\ sleeps' = sleeps + 1
    /\ backoff' = NextBackoff(backoff)
    /\ pc' = "loop"
    /\ exitReason' = exitReason

\* lines 466-475 and 209-397: one iteration up to the blocking run call.
\* ctor is what instantiate_feed_simple met: "ok", "fails" (every constructor
\* form raised, so it returns None), or "leak": the session was built and an
\* exception then left the loop body outside the inner try blocks (reflection
\* on the feed object raising something other than AttributeError).
Connect ==
    /\ pc = "loop"
    /\ sdk.kind = "class"
    /\ attempts < MaxAttempts
    /\ attempts' = attempts + 1
    /\ runErr' = "none"
    /\ \E ctor \in {"ok", "fails", "leak"} :
         CASE ctor = "fails" ->
                  /\ pc' = "done"
                  /\ exitReason' = "cannot_instantiate"
                  /\ onlyRunRaised' = FALSE
                  /\ UNCHANGED <<feed, registered, sessions, backoff, delays, sleeps>>
           [] ctor = "leak" ->
                  /\ feed' = "open"
                  /\ sessions' = sessions + 1
                  /\ registered' = sdk.hooks
                  /\ onlyRunRaised' = FALSE
                  /\ LoopError
           [] OTHER ->
                  /\ feed' = "open"
                  /\ sessions' = sessions + 1
                  /\ registered' = sdk.hooks
                  /\ IF sdk.entry = "none"
                     THEN pc' = "done" /\ exitReason' = "no_entrypoint"
                          /\ onlyRunRaised' = FALSE
                     ELSE pc' = "running" /\ exitReason' = exitReason
                          /\ onlyRunRaised' = onlyRunRaised
                  /\ UNCHANGED <<backoff, delays, sleeps>>
    /\ UNCHANGED <<creds, handlerVars, raceVars, sdk>>

\* lines 397-416 and 492-515: the run call ends with outcome o
RunEnds ==
    /\ pc = "running"
    /\ \E o \in RunOutcomes :
         LET r == TryStartResult(sdk.entry, o)
         IN  /\ onlyRunRaised' = (onlyRunRaised /\ o = "Exception")
             /\ runErr' = o
             /\ IF o = "KeyboardInterrupt"
                THEN /\ pc' = "done"
                     /\ exitReason' = "keyboard_interrupt"
                     /\ UNCHANGED <<feed, backoff, delays, sleeps>>
                ELSE IF ~r[1]
                THEN /\ pc' = "done"
                     /\ exitReason' = "run_value_error"
                     /\ UNCHANGED <<feed, backoff, delays, sleeps>>
                ELSE IF UnsupportedVersion(r[2])
                THEN /\ feed' = Disconnected(sdk, feed)
                     /\ delays' = Slept(HalfSecond)
                     /\ sleeps' = sleeps + 1
                     /\ pc' = "loop"
                     /\ UNCHANGED <<backoff, exitReason>>
                ELSE /\ backoff' = INITIAL_BACKOFF
                     /\ delays' = Slept(Ms(1))
                     /\ sleeps' = sleeps + 1
                     /\ pc' = "loop"
                     /\ UNCHANGED <<feed, exitReason>>
    /\ UNCHANGED <<creds, handlerVars, raceVars, sdk, registered, attempts, sessions>>

\* lines 476-490: no feed class; the module-level market_feed_wss fallback
ConnectWss ==
    /\ pc = "loop"
    /\ sdk.kind = "nofeed"
    /\ attempts < MaxAttempts
    /\ attempts' = attempts + 1
    /\ IF sdk.wss
       THEN pc' = "wss" /\ exitReason' = exitReason
       ELSE pc' = "done" /\ exitReason' = "no_feed_class"
    /\ onlyRunRaised' = FALSE
    /\ UNCHANGED <<creds, handlerVars, raceVars, sdk, feed, registered, backoff, delays,
                   sleeps, sessions, runErr>>

\* lines 481-490: market_feed_wss returns (sleep 1, continue) or raises
WssEnds ==
    /\ pc = "wss"
    /\ \E o \in {"returned", "raised"} :
         IF o = "returned"
         THEN /\ delays' = Slept(Ms(1))
              /\ sleeps' = sleeps + 1
              /\ pc' = "loop"
              /\ exitReason' = exitReason
         ELSE /\ pc' = "done"
              /\ exitReason' = "no_feed_class"
              /\ UNCHANGED <<delays, sleeps>>
    /\ UNCHANGED <<creds, handlerVars, raceVars, sdk, feed, registered, backoff, attempts,
                   sessions, runErr, onlyRunRaised>>

\* lines 526-531: SIGINT or SIGTERM; _signal_handler raises SystemExit, which
\* neither "except KeyboardInterrupt" nor "except Exception" catches, so it
\* leaves start_market_feed and the process exits
Signal ==
    /\ pc \in {"start", "loop", "running", "wss"}
    /\ pc' = "done"
    /\ exitReason' = "signal"
    /\ UNCHANGED <<creds, handlerVars, raceVars, sdk, feed, registered, backoff, delays,
                   sleeps, attempts, sessions, runErr, onlyRunRaised>>

InitFeed ==
    /\ creds \in CredSets
    /\ sdk \in SdkShapes
    /\ pc = "start"
    /\ feed = "none"
    /\ registered = FALSE
    /\ backoff = INITIAL_BACKOFF
    /\ delays = <<>>
    /\ sleeps = 0
    /\ attempts = 0
    /\ sessions = 0
    /\ runErr = "none"
    /\ onlyRunRaised = TRUE
    /\ exitReason = "none"
    /\ msg = Junk
    /\ HandlerFresh
    /\ RaceIdle

NextFeed == Start \/ Connect \/ RunEnds \/ ConnectWss \/ WssEnds \/ Signal

SpecFeed == InitFeed /\ [][NextFeed]_vars

----------------------------------------------------------------------------
(* Claims about the throttle, checked under SpecThrottle *)

TelegramConfigured == creds.bot_token /\ creds.chat_id

\* C1: two successful deliveries for the same security id are never less
\* than SEND_INTERVAL_SECONDS apart: when a delivery succeeds, the time of
\* its eligibility check minus the recorded time of the previous successful
\* delivery for that id is at least SEND_INTERVAL_SECONDS.
C1_ThrottleInvariant ==
    (last.res = "sent" /\ last.prevDeliv > 0)
        => last.now - last.prevDeliv >= SEND_INTERVAL_SECONDS

\* a second successful delivery for an id has just been made
C1_Witness == last.res = "sent" /\ last.prevDeliv > 0

\* C2 as stated: with Telegram configured, the ticks for one id that arrive
\* less than SEND_INTERVAL_SECONDS after the first one cause exactly one
\* POST, whatever the delivery outcomes.
C2_ExactlyOneAttempt ==
    TelegramConfigured => \A id \in DOMAIN win : win[id].attempts = 1

\* C2 amended: within that window every tick makes a delivery attempt until
\* one attempt succeeds, no tick after the successful delivery makes an
\* attempt, and exactly one attempt is made when the first attempt succeeds.
C2_AttemptsUntilFirstSuccess ==
    TelegramConfigured =>
        \A id \in DOMAIN win :
            /\ win[id].skipsBeforeOk = 0
            /\ win[id].attemptsAfterOk = 0
            /\ win[id].oks <= 1
            /\ win[id].firstOk => win[id].attempts = 1

\* a window with a failed attempt, then a successful one, then a suppressed tick
C2_Witness ==
    /\ TelegramConfigured
    /\ \E id \in DOMAIN win :
           win[id].ticks = 3 /\ win[id].attempts = 2 /\ win[id].oks = 1

\* C3: a failed delivery attempt (POST raises, or response not ok) leaves
\* _last_sent as it was and lets no exception out of send_telegram_message,
\* and the next tick for that id makes a delivery attempt again.
C3_FailedAttemptKeepsThrottle ==
    /\ (last.res \in Failed) => (last_sent = last.sentBefore /\ last.sendExc = "none")
    /\ (last.afterFailAt > 0) => (last.res \in Attempted)

\* a tick arrives within the interval of a failed attempt and is attempted
C3_Witness ==
    /\ last.afterFailAt > 0
    /\ last.now - last.afterFailAt < SEND_INTERVAL_SECONDS
    /\ last.res \in Attempted

\* C7: the first tick for id 1333 at T is delivered, the same tick at T+5 causes
\* no delivery, and the same tick at T+65 causes exactly one more delivery,
\* whatever the duration of the first delivery.
C7_ScenarioDelivers ==
    (HDFC_ID \in DOMAIN scen /\ scen[HDFC_ID].stage = 3)
        => (scen[HDFC_ID].d2 = 0 /\ scen[HDFC_ID].d3 = 1)

----------------------------------------------------------------------------
(* Claims about the handler's normalisation, checked under SpecNorm *)

IsIdName(n) == n \in Range(IdNames)
IsPriceName(n) == n \in Range(PriceNames)

\* a message that is malformed or incomplete, judged from its shape alone:
\* not a map or object, or no id field anywhere, or no price field anywhere,
\* or no price field with a parsable value
Incomplete(m) ==
    \/ m.kind \in {"opaque", "nonobject"}
    \/ ~\E sl \in DOMAIN m.f : IsIdName(sl[2])
    \/ ~\E sl \in DOMAIN m.f : IsPriceName(sl[2]) /\ Float(m.f[sl]) # NoPrice

\* the map whose fields are those of container c of m, moved to the top level
Hoisted(m, c) ==
    [m EXCEPT !.f = [sl \in {<<"top", x[2]>> : x \in {y \in DOMAIN m.f : y[1] = c}}
                        |-> m.f[<<c, sl[2]>>]]]

\* m is a map holding exactly one id field and one price field, both in c
NestedPair(m, c) ==
    /\ m.kind \in {"dict", "json"}
    /\ \E i \in Range(IdNames), p \in Range(PriceNames) :
           DOMAIN m.f = {<<c, i>>, <<c, p>>}

\* C6: for every id field name and price field name, a map that holds the
\* two fields inside one of the containers yields the same tick as the map
\* that holds them at the top level.
C6_NestedSameAsTop ==
    \A c \in Range(Containers) :
        (calls > 0 /\ NestedPair(msg, c)) => last.tick = Normalize(Hoisted(msg, c))

----------------------------------------------------------------------------
(* Claims about the feed loop, checked under SpecFeed *)

\* C4: while every attempt so far ended with the run call raising an
\* exception, the sleeps before the reconnect attempts are 1, 2, 4, ... 60,
\* 60 seconds: the first is INITIAL_BACKOFF and each next one is double the
\* previous one, capped at MAX_BACKOFF.
C4_BackoffDoubles ==
    (onlyRunRaised /\ sleeps >= 1) =>
        /\ sleeps = 1 => delays[1] = Ms(INITIAL_BACKOFF)
        /\ sleeps >= 2 =>
               delays[Len(delays)] = Min(Ms(MAX_BACKOFF), 2 * delays[Len(delays) - 1])

\* C5: once the retry loop has been entered, start_market_feed ends only on
\* an external shutdown or on a missing part of the configuration; an
\* exception from the SDK's constructor or from its run call never ends it.
C5_ExitsOnlyOnShutdown ==
    (pc = "done" /\ attempts > 0) =>
        exitReason \in {"signal", "keyboard_interrupt", "missing_credentials",
                        "no_feed_class", "no_entrypoint"}

\* C8: if any of the four credentials is absent, no feed session is
\* constructed and no connection attempt is made.
C8_NoSessionWithoutCredentials ==
    (creds # AllCreds) => (sessions = 0 /\ pc \notin {"running", "wss"})

\* C10: when start_market_feed ends on SIGINT or SIGTERM while a feed
\* session exists, the session has been closed.
C10_SignalClosesSession ==
    (pc = "done" /\ exitReason = "signal" /\ feed # "none") => feed = "closed"

\* C11: when a run call that was entered ends and the loop goes on, the
\* backoff of start_market_feed is INITIAL_BACKOFF again, however large it
\* had grown before.
C11_RunResetsBackoff ==
    [][(pc = "running" /\ pc' = "loop") => backoff' = INITIAL_BACKOFF]_vars

\* C12: the blocking run call is entered only for a session on which a
\* registration of market_feed_handler as callback succeeded.
C12_RunOnlyWhenRegistered == (pc = "running") => registered

\* C20: when the run call ends with a ValueError whose text contains
\* "Unsupported version", start_market_feed disconnects the feed, waits and
\* continues its loop; it does not exit.
C20_UnsupportedVersionRetries ==
    [][(pc = "running" /\ runErr' = "ValueError_unsupported")
           => (pc' = "loop" /\ feed' = Disconnected(sdk, feed) /\ sleeps' = sleeps + 1)]_vars

----------------------------------------------------------------------------
(* Claims about the priority lists and the price, checked under SpecTop *)

\* the value of the first name of the list that is present at the top level
\* of m, or None when none is
RECURSIVE FirstPresent(_, _, _)
FirstPresent(m, names, i) ==
    IF i > Len(names) THEN PyNone
    ELSE IF <<"top", names[i]>> \in DOMAIN m.f THEN m.f[<<"top", names[i]>>]
    ELSE FirstPresent(m, names, i + 1)

\* the tick made of the first present id field and the first present price field
ByPriority(m) ==
    TickOf(FirstPresent(m, IdNames, 1), ParsePrice(FirstPresent(m, PriceNames, 1)))

\* every value of m is a non-empty str or a non-zero number that float() parses
PlainValues(m) == \A sl \in DOMAIN m.f : m.f[sl] \in {"'1333'", "1700"}

\* C13: for an attribute-style message whose attributes hold ordinary
\* values and that has no attribute s, the id and the price used are those of the highest-priority
\* attribute present (securityId, symbol, security_id, s / lastTradedPrice,
\* ltp, last_price, last), as for a map.
C13_ObjectByPriority ==
    (calls > 0 /\ msg.kind = "object" /\ PlainValues(msg)
       /\ <<"top", "s">> \notin DOMAIN msg.f)
        => last.tick = ByPriority(msg)

\* C14: a tick is produced (latest_ltp written, send_telegram_message
\* called) only for a price that parses as a finite number; "nan" and "inf"
\* yield no tick and no alert.
C14_TickOnlyForFinitePrice ==
    /\ \A id \in DOMAIN latest_ltp : IsFinite(latest_ltp[id])
    /\ (calls > 0 /\ last.tick.tick) => IsFinite(last.tick.price)
    /\ (posts > 0) => IsFinite(last.tick.price)

\* C15: for a map, the id and the price used are the values of the first
\* field of the respective priority list that is present, whatever the value
\* (0, 0.0 and the empty string included).
C15_MapFirstPresentField ==
    (calls > 0 /\ msg.kind = "dict") => last.tick = ByPriority(msg)

----------------------------------------------------------------------------
(* Further claims about the throttle and the price cache, checked under     *)
(* SpecThrottle                                                             *)

\* C16: after a successful delivery, _last_sent[security_id] is the time
\* `now` that send_telegram_message read at its start and compared with the
\* interval, not a later time taken after the POST.
C16_RecordsCheckTime ==
    (last.res = "sent") => last_sent[last.tick.id] = last.now

Is2xx(st) == 200 <= st /\ st < 300

\* C17: when the POST returns a response, _last_sent is updated only if the
\* status is 2xx; for any other status _last_sent stays as it was and no
\* exception leaves the call.
C17_OnlySuccessStatusUpdates ==
    (calls > 0 /\ posts = last.postsBefore + 1 /\ status # NoResponse /\ ~Is2xx(status))
        => (last_sent = last.sentBefore /\ last.sendExc = "none")

\* C18: each handler invocation whose message normalises to a tick sets
\* latest_ltp[id] to that tick's price whatever became of the alert
\* (delivered, throttled, no credentials, failed); any other invocation
\* leaves latest_ltp unchanged; no key is ever removed.
C18_LatestLtpFollowsTicks ==
    (calls > 0) =>
        /\ DOMAIN last.ltpBefore \subseteq DOMAIN latest_ltp
        /\ last.tick = Normalize(msg)
        /\ IF last.tick.tick
           THEN /\ last.tick.id \in DOMAIN latest_ltp
                /\ latest_ltp[last.tick.id] = last.tick.price
                /\ \A j \in DOMAIN latest_ltp \ {last.tick.id} :
                       j \in DOMAIN last.ltpBefore /\ latest_ltp[j] = last.ltpBefore[j]
           ELSE latest_ltp = last.ltpBefore

\* a tick whose alert was throttled has changed the cached price of its id
C18_Witness ==
    /\ calls > 0
    /\ last.tick.tick
    /\ last.res = "throttled"
    /\ last.tick.id \in DOMAIN last.ltpBefore
    /\ last.ltpBefore[last.tick.id] # last.tick.price
    /\ latest_ltp[last.tick.id] = last.tick.price

\* C19: a call send_telegram_message(k, ...) changes no entry of _last_sent
\* other than that of k, changes that one only when the delivery succeeded,
\* and when throttled makes no POST and leaves _last_sent unchanged.
C19_SendFrame ==
    (calls > 0 /\ last.tick.tick) =>
        /\ \A j \in (DOMAIN last_sent \cup DOMAIN last.sentBefore) \ {last.tick.id} :
               /\ j \in DOMAIN last_sent
               /\ j \in DOMAIN last.sentBefore
               /\ last_sent[j] = last.sentBefore[j]
        /\ (last.res # "sent") => last_sent = last.sentBefore
        /\ Throttled(last.now, Get(last.sentBefore, last.tick.id, 0))
               => (posts = last.postsBefore /\ last_sent = last.sentBefore)

\* an alert for one id has been delivered while another id had an entry
C19_Witness ==
    /\ calls > 0
    /\ last.res = "sent"
    /\ \E j \in DOMAIN last.sentBefore : j # last.tick.id
    /\ last_sent # last.sentBefore

----------------------------------------------------------------------------
(* Claim about the nested lookup, checked under SpecNorm *)

\* container c of m is a dict that holds a usable id (securityId or symbol)
HoldsId(m, c) == IsDictAt(m, c) /\ Truthy(NestedId(m, c, PyNone))

\* c is the container the handler takes the id from: the first one, in the
\* order of line 100, that holds a usable id
IdContainer(m, c) ==
    /\ HoldsId(m, c)
    /\ \A i, j \in DOMAIN Containers :
           (Containers[j] = c /\ i < j) => ~HoldsId(m, Containers[i])

\* m is a map with no top-level field
OnlyNested(m) ==
    /\ m.kind \in {"dict", "json"}
    /\ \A sl \in DOMAIN m.f : sl[1] # "top"

\* C22: when the handler takes the security id from a nested container of a
\* map, the price of the tick is the price found in that same container.
C22_IdAndPriceFromSameContainer ==
    \A c \in Range(Containers) :
        (calls > 0 /\ OnlyNested(msg) /\ IdContainer(msg, c) /\ last.tick.tick)
            => last.tick.price = ParsePrice(NestedPrice(msg, c, PyNone))

----------------------------------------------------------------------------
(* Claim about concurrent handler invocations, checked under SpecRace *)

\* C21: also when invocations of market_feed_handler for the same id run
\* concurrently, two deliveries for that id are never made less than
\* SEND_INTERVAL_SECONDS apart.
C21_OneDeliveryPerIntervalConcurrent ==
    \A id \in DOMAIN raceSent :
        \A i, j \in DOMAIN raceSent[id] :
            i < j => raceSent[id][j] - raceSent[id][i] >= SEND_INTERVAL_SECONDS

====
